---- MODULE Spec2Model ----
(***************************************************************************)
(* Model of expensify-heist-mcp: the Safari-driven login flow and export   *)
(* orchestrator of heist.py and the tool boundary of server.py.            *)
(*                                                                         *)
(* Time is counted in ticks of half a second, the finest sleep the code    *)
(* uses.  Strings are modelled as sequences of tokens: `x in s` is the     *)
(* presence of token x in s, and s.lower() lowers every token.             *)
(***************************************************************************)
EXTENDS Integers, Sequences, FiniteSets, TLC

VARIABLES
    op,          \* the tool call being served: "idle", "login", "export", "returned"
    pc,          \* position of the running function
    clock,       \* time.time(), in ticks
    timeout,     \* timeout / timeout_seconds argument, in seconds
    report_id,   \* report_id argument of the export call
    cmds,        \* bridge commands issued during the call, in order
    probe,       \* the last run of is_logged_in: [ran, failed, url, result]
    poll,        \* the last iteration of the login poll loop: [url, raised, probed]
    probes,      \* iterations of the readiness loop run so far
    ready,       \* what the last readiness probe gave
    authUrl,     \* the URL read at the auth check
    entry_time,  \* clock when the call entered its function
    start_time,  \* heist.py: start / start_time
    end_time,    \* heist.py: end_time
    listing,     \* ~/Downloads/*.csv in glob order, as the last scan listed it
    picked,      \* the file record the export returned the content of
    result,      \* outcome of the function: return value or raised error
    response,    \* what call_tool hands back to the host
    csv,         \* parser.py: csv_content, as header and data lines
    expenses,    \* parser.py: what parse_expensify_csv came to
    js_result,   \* what the last click script gave: its result, or "raise"
    scans,       \* calls of find_latest_expensify_csv made by the download loop
    twin         \* the attempt this one is compared with, step by step

vars == <<op, pc, clock, timeout, report_id, cmds, probe, poll, probes,
          ready, authUrl, entry_time, start_time, end_time, listing,
          picked, result, response, csv, expenses, js_result, scans,
          twin>>

\* All that an attempt does and leaves behind: everything but the report_id
\* argument it was called with.
Obs ==
    [op |-> op, pc |-> pc, clock |-> clock, timeout |-> timeout,
     cmds |-> cmds, probe |-> probe, poll |-> poll, probes |-> probes,
     ready |-> ready, authUrl |-> authUrl, entry_time |-> entry_time,
     start_time |-> start_time, end_time |-> end_time, listing |-> listing,
     picked |-> picked, result |-> result, response |-> response,
     csv |-> csv, expenses |-> expenses, js_result |-> js_result,
     scans |-> scans]

\* No comparison is under way.
NoTwin == [stage |-> "sync", rid |-> "none", before |-> <<>>, after |-> <<>>]

----------------------------------------------------------------------------
(* Bounds of the model *)

MaxTimeout == 2
MaxLoginTimeout == 7
MaxDelay == 1
MaxFiles == 2
StaleAge == 12

Timeouts == 1..MaxTimeout
LoginTimeouts == {1, MaxLoginTimeout}
Delays == 0..MaxDelay

(* Program constants *)

TicksPerSecond == 2
SettleSleep == 6
LoginPollSleep == 6
PollSleep == 2
ClickSleep == 1
DownloadSleep == 1
PollLimit == 20
ReadyThreshold == 10
FreshSlack == 5
ScanLimit == 10

----------------------------------------------------------------------------
(* Strings *)

Lower(tok) ==
    CASE tok = "Sign-In"  -> "sign-in"
      [] tok = "SIGNIN"   -> "signin"
      [] tok = "Merchant" -> "merchant"
      [] tok = "Amount"   -> "amount"
      [] tok = "AMOUNT"   -> "amount"
      [] tok = "NaN"      -> "nan"
      [] tok = "sNaN"     -> "snan"
      [] tok = "Infinity" -> "infinity"
      [] tok = "Yes"      -> "yes"
      [] tok = "TRUE"     -> "true"
      [] OTHER            -> tok

LowerStr(s) == [i \in 1..Len(s) |-> Lower(s[i])]

Contains(s, tok) == \E i \in 1..Len(s) : s[i] = tok

ReportsUrl == <<"https://www.expensify.com", "/reports">>
SigninUrl == <<"https://www.expensify.com", "/signin">>

\* URLs the tab can show when it is read: the web application decides.
Urls ==
    { ReportsUrl,
      <<"https://www.expensify.com", "/inbox">>,
      <<"https://www.expensify.com", "sign-in">>,
      <<"https://www.expensify.com", "Sign-In", "exitTo=", "/reports">>,
      <<"https://www.expensify.com", "signin", "exitTo=", "/reports">>,
      <<"https://www.expensify.com", "SIGNIN">> }

\* stderr of a failed osascript run
Stderrs == { <<"execution", "error">> }

BridgeError(stderr) == <<"AppleScript", "error:">> \o stderr

----------------------------------------------------------------------------
(* Bridge commands (run_applescript scripts), as they are logged in cmds *)

Activate == "activate"
EnsureWindow == "ensure_window"
SetUrlReports == "set_url_reports"
SetUrlSignin == "set_url_signin"
GetUrl == "get_url"
JsReady == "js_ready"
JsClickCheckbox == "js_click_checkbox"
JsClickExport == "js_click_export"
JsClickCsv == "js_click_csv"
CloseTab == "close_tab"

\* set_safari_url(url): ensure_safari_window, then the script setting the URL.
\* failAt names the run_applescript call that fails, if any.
SetSafariUrlCmds(setCmd, failAt) ==
    IF failAt = EnsureWindow THEN <<EnsureWindow>> ELSE <<EnsureWindow, setCmd>>

SetSafariUrlFails(failAt) == failAt \in {EnsureWindow, "set_url"}

----------------------------------------------------------------------------
(* Session probe *)

\* The login markers of the poll loop and of the auth check.
HasLoginMarker(url) ==
    Contains(LowerStr(url), "sign-in") \/ Contains(LowerStr(url), "signin")

\* The return expression of is_logged_in.
ProbeVerdict(url) ==
    Contains(url, "/reports") /\ ~Contains(LowerStr(url), "sign-in")

ProbeFailPoints == {"none", Activate, EnsureWindow, "set_url", GetUrl}

\* One run of is_logged_in: failAt is the bridge call that fails (if any), url
\* what the tab shows after the settle sleep.  Gives the value returned, the
\* commands issued and the time slept.
IsLoggedIn(failAt, url) ==
    LET issued ==
            IF failAt = Activate THEN <<Activate>>
            ELSE <<Activate>> \o SetSafariUrlCmds(SetUrlReports, failAt)
                 \o (IF SetSafariUrlFails(failAt) THEN <<>> ELSE <<GetUrl>>)
        slept == IF failAt = Activate \/ SetSafariUrlFails(failAt)
                 THEN 0 ELSE SettleSleep
        failed == failAt # "none"
    IN  [ ran     |-> TRUE,
          failed  |-> failed,
          url     |-> IF failed THEN <<>> ELSE url,
          result  |-> IF failed THEN FALSE ELSE ProbeVerdict(url),
          cmds    |-> issued,
          slept   |-> slept ]

NoPoll == [url |-> <<>>, raised |-> FALSE, probed |-> FALSE]

NoProbe ==
    [ran |-> FALSE, failed |-> FALSE, url |-> <<>>, result |-> FALSE,
     cmds |-> <<>>, slept |-> 0]

----------------------------------------------------------------------------
(* Outcomes *)

NoResult == [kind |-> "none", value |-> <<>>, diag |-> <<>>, at |-> "none"]
Returned(v) == [kind |-> "value", value |-> v, diag |-> <<>>, at |-> "none"]
Raised(d, where) == [kind |-> "raised", value |-> <<>>, diag |-> d, at |-> where]

NoFile ==
    [mtime |-> 0, name |-> <<>>, content |-> <<>>, readable |-> FALSE,
     gone |-> FALSE]

----------------------------------------------------------------------------
(* sync_login_interactive *)

\* Faulty variant: the early return is missing.
ShortCircuitsNever(probeResult) == FALSE

\* Line 101-102: the early return.
ShortCircuits(probeResult) == probeResult

\* Faulty variant: a URL without a login marker is taken as a completed login.
PollConfirmsOnUrl(url, probeResult) == ~HasLoginMarker(url)

\* Lines 114-117: the poll iteration returns True.
PollConfirms(url, probeResult) == ~HasLoginMarker(url) /\ probeResult

\* Line 114: the poll iteration runs is_logged_in.
PollProbes(url) == ~HasLoginMarker(url)

\* Faulty variant: the loop gives up after its first iteration.
LoginLoopContinuesOnce(now, start, limit) == now = start

\* Line 110: the loop condition.
LoginLoopContinues(now, start, limit) == now - start < limit * TicksPerSecond

LoginCall ==
    /\ op = "idle"
    /\ \E t \in LoginTimeouts : timeout' = t
    /\ op' = "login"
    /\ pc' = "activate"
    /\ entry_time' = clock
    /\ UNCHANGED <<clock, report_id, cmds, probe, poll, probes, ready, authUrl,
                   start_time, end_time, listing, picked, result,
                   response,
                   csv, expenses, js_result, scans, twin>>

\* Line 98
LoginActivate ==
    /\ op = "login" /\ pc = "activate"
    /\ cmds' = Append(cmds, Activate)
    /\ \/ /\ pc' = "first_probe"
          /\ UNCHANGED result
       \/ \E e \in Stderrs :
             /\ pc' = "raised"
             /\ result' = Raised(BridgeError(e), "activate")
    /\ UNCHANGED <<op, clock, timeout, report_id, probe, poll, probes,
                   ready, authUrl, entry_time, start_time, end_time, listing, picked, response,
                   csv, expenses, js_result, scans, twin>>

\* Lines 101-102
LoginFirstProbe ==
    /\ op = "login" /\ pc = "first_probe"
    /\ \E f \in ProbeFailPoints, u \in Urls :
          LET p == IsLoggedIn(f, u) IN
          /\ probe' = p
          /\ cmds' = cmds \o p.cmds
          /\ clock' = clock + p.slept
          /\ IF ShortCircuits(p.result)
             THEN pc' = "done" /\ result' = Returned(TRUE)
             ELSE pc' = "navigate" /\ UNCHANGED result
    /\ UNCHANGED <<op, timeout, report_id, poll, probes, ready, authUrl,
                   entry_time, start_time, end_time, listing,
                   picked, response,
                   csv, expenses, js_result, scans, twin>>

\* Lines 105-109
LoginNavigate ==
    /\ op = "login" /\ pc = "navigate"
    /\ \E f \in {"none", EnsureWindow, "set_url"} :
          /\ cmds' = cmds \o SetSafariUrlCmds(SetUrlSignin, f)
          /\ IF SetSafariUrlFails(f)
             THEN /\ \E e \in Stderrs :
                        result' = Raised(BridgeError(e), "navigate")
                  /\ pc' = "raised"
                  /\ UNCHANGED start_time
             ELSE /\ pc' = "poll"
                  /\ start_time' = clock
                  /\ UNCHANGED result
    /\ UNCHANGED <<op, clock, timeout, report_id, probe, poll, probes,
                   ready, authUrl, entry_time, end_time, listing, picked,
                   response,
                   csv, expenses, js_result, scans, twin>>

\* Lines 110-119: one iteration of the poll loop.
LoginPoll ==
    /\ op = "login" /\ pc = "poll"
    /\ LoginLoopContinues(clock, start_time, timeout)
    /\ \/ \* get_safari_url raises: swallowed
          /\ poll' = [url |-> <<>>, raised |-> TRUE, probed |-> FALSE]
          /\ cmds' = Append(cmds, GetUrl)
          /\ clock' = clock + LoginPollSleep
          /\ UNCHANGED <<probe, pc, result>>
       \/ \E u \in Urls :
          /\ poll' = [url |-> u, raised |-> FALSE, probed |-> PollProbes(u)]
          /\ IF PollProbes(u)
             THEN \E f \in ProbeFailPoints, v \in Urls :
                    LET p == IsLoggedIn(f, v) IN
                    /\ probe' = p
                    /\ cmds' = Append(cmds, GetUrl) \o p.cmds
                    /\ clock' = clock + LoginPollSleep + p.slept
                    /\ IF PollConfirms(u, p.result)
                       THEN pc' = "done" /\ result' = Returned(TRUE)
                       ELSE UNCHANGED <<pc, result>>
             ELSE /\ cmds' = Append(cmds, GetUrl)
                  /\ clock' = clock + LoginPollSleep
                  /\ UNCHANGED <<probe, pc, result>>
    /\ UNCHANGED <<op, timeout, report_id, probes, ready, authUrl, entry_time,
                   start_time, end_time, listing, picked, response,
                   csv, expenses, js_result, scans, twin>>

\* Lines 110, 121-122: the deadline has passed.
LoginTimedOut ==
    /\ op = "login" /\ pc = "poll"
    /\ ~LoginLoopContinues(clock, start_time, timeout)
    /\ pc' = "done"
    /\ result' = Returned(FALSE)
    /\ UNCHANGED <<op, clock, timeout, report_id, cmds, probe, poll,
                   probes, ready, authUrl, entry_time, start_time, end_time, listing, picked, response,
                   csv, expenses, js_result, scans, twin>>

----------------------------------------------------------------------------
(* Download directory *)

\* Kinds of .csv file the directory can hold: file name (stem), content,
\* whether read_text() succeeds, and whether the file is gone again by the
\* time stat() is called on it.
FileKinds ==
    { [name |-> <<"export">>, content |-> <<"Date", "Merchant", "Amount">>,
       readable |-> TRUE, gone |-> FALSE],
      [name |-> <<"Expensify", "Report">>, content |-> <<"Date", "Total">>,
       readable |-> TRUE, gone |-> FALSE],
      [name |-> <<"notes">>, content |-> <<"Date", "Total">>,
       readable |-> TRUE, gone |-> FALSE],
      [name |-> <<"Expensify", "raw">>, content |-> <<>>,
       readable |-> FALSE, gone |-> FALSE],
      [name |-> <<"partial">>, content |-> <<"Date", "Merchant", "Amount">>,
       readable |-> TRUE, gone |-> TRUE] }

File(kind, mtime) ==
    [mtime |-> mtime, name |-> kind.name, content |-> kind.content,
     readable |-> kind.readable, gone |-> kind.gone]

InsertAt(seq, i, x) == SubSeq(seq, 1, i) \o <<x>> \o SubSeq(seq, i + 1, Len(seq))

\* Faulty variant: reverse=True is missing, the oldest file comes first.
OlderFirst(a, b) == a.mtime < b.mtime

\* Line 132-133: the sort key and direction.
NewerFirst(a, b) == a.mtime > b.mtime

\* Lines 130-134: sorted(..., reverse=True), a stable sort of the glob listing.
RECURSIVE SortedListing(_)
SortedListing(files) ==
    IF files = <<>> THEN <<>>
    ELSE LET rest == SortedListing(SubSeq(files, 1, Len(files) - 1))
             x == files[Len(files)]
             \* x goes after every element that is not older than it
             k == Cardinality({i \in 1..Len(rest) : ~NewerFirst(x, rest[i])})
         IN  InsertAt(rest, k, x)

\* Line 136: csv_files[:10]
Inspected(sorted) ==
    SubSeq(sorted, 1, IF Len(sorted) < ScanLimit THEN Len(sorted) ELSE ScanLimit)

\* Line 138: the file is too old.
TooOld(f, now, max_age) == now - f.mtime > max_age * TicksPerSecond

\* Line 144: the export heuristic.
LooksLikeExport(f) ==
    \/ Contains(f.content, "Merchant")
    \/ Contains(f.content, "Amount")
    \/ Contains(f.name, "Expensify")

\* Lines 137-147: the loop body's verdict on one candidate.
Accepts(f, now, max_age) ==
    /\ ~TooOld(f, now, max_age)
    /\ f.readable
    /\ LooksLikeExport(f)

\* Line 132: f.stat() raises FileNotFoundError for a file that is gone.
StatRaises(files) == \E i \in 1..Len(files) : files[i].gone

\* Lines 125-149: the first accepted candidate, or none, or the error raised.
find_latest_expensify_csv(files, now, max_age) ==
    IF StatRaises(files)
    THEN [raised |-> TRUE, found |-> FALSE, file |-> NoFile]
    ELSE LET cand == Inspected(SortedListing(files))
             hits == {i \in 1..Len(cand) : Accepts(cand[i], now, max_age)}
         IN  IF hits = {}
             THEN [raised |-> FALSE, found |-> FALSE, file |-> NoFile]
             ELSE [raised |-> FALSE, found |-> TRUE,
                   file |-> cand[CHOOSE i \in hits : \A j \in hits : i <= j]]

\* Line 238: max_age_seconds=int(time.time() - start_time + 5)
MaxAge(now, start) == (now - start) \div TicksPerSecond + FreshSlack

\* Faulty variant: a file modified at the anchor itself is taken.
AfterSinceOrAt(f, start) == f.mtime >= start

\* Line 239: the file is newer than the anchor.
AfterSince(f, start) == f.mtime > start

\* Lines 238-239: the file one iteration of the download loop takes, or none.
AwaitScan(files, now, start) ==
    LET hit == find_latest_expensify_csv(files, now, MaxAge(now, start))
    IN  IF hit.found /\ ~AfterSince(hit.file, start)
        THEN [raised |-> FALSE, found |-> FALSE, file |-> NoFile]
        ELSE hit

\* Modification times a listed file can have at time `now` of an attempt
\* anchored at `start`: long before the anchor, at it, just after it, and now.
Mtimes(now, start) ==
    {t \in {start - StaleAge, start, start + 1, now} : t <= now}

\* What the glob can list at time `now`.
Listings(now, start) ==
    LET files == {File(k, t) : k \in FileKinds, t \in Mtimes(now, start)}
    IN  UNION { [1..n -> files] : n \in 0..MaxFiles }

\* What one iteration of the download loop can come to at time `now`.
ScanOutcomes(now, start) ==
    {AwaitScan(l, now, start) : l \in Listings(now, start)}

\* The scan compares times with one another only, so its outcomes depend on
\* `now` and `start` through their distance: they are tabulated by it, for an
\* anchor at time 0, and moved to the anchor of the attempt.
ScanTable ==
    [d \in 0..(MaxTimeout * TicksPerSecond) |-> ScanOutcomes(d, 0)]

MovedTo(hit, start) ==
    IF hit.found
    THEN [hit EXCEPT !.file = [@ EXCEPT !.mtime = @ + start]]
    ELSE hit

ScanOutcomesAt(now, start) ==
    {MovedTo(hit, start) : hit \in ScanTable[now - start]}

----------------------------------------------------------------------------
(* sync_fetch_expenses_csv *)

PageNotReady == <<"Page did not load within 20 seconds">>
NotLoggedIn ==
    <<"Not logged in", "to Expensify.", "Please run 'expensify_login' first.">>
NoCheckbox == <<"No report checkboxes found on the page">>
NoExportButton == <<"Export button not found">>
NoCsvOption == <<"Default CSV option not found in dropdown">>
NoExport == <<"No CSV export found.", "Please try again.">>
FileGone == <<"FileNotFoundError">>

ReportIds == {"none", "R1"}

\* What run_javascript gives for the readiness script: the call raises, or
\* returns text that float() rejects, or a number (whole part, and whether a
\* fraction follows it).
ReadyResults ==
    { [kind |-> "raise", whole |-> 0, frac |-> FALSE],
      [kind |-> "text",  whole |-> 0, frac |-> FALSE],
      [kind |-> "num",   whole |-> 0, frac |-> FALSE],
      [kind |-> "num",   whole |-> ReadyThreshold, frac |-> FALSE],
      [kind |-> "num",   whole |-> ReadyThreshold, frac |-> TRUE],
      [kind |-> "num",   whole |-> ReadyThreshold + 1, frac |-> FALSE] }

NoReady == [kind |-> "none", whole |-> 0, frac |-> FALSE]

\* Faulty variant: a count of 10 is taken as a loaded page.
IsReadyAtThreshold(r) == r.kind = "num" /\ r.whole >= ReadyThreshold

\* Lines 167-170: count = int(float(result)); count > 10
IsReady(r) == r.kind = "num" /\ r.whole > ReadyThreshold

\* What run_javascript gives for a click script; "raise" is a bridge failure.
ClickResults == {"clicked", "not found", "", "raise"}

\* Faulty variant: only the script's own 'not found' is taken as a failure.
ClickedUnlessNotFound(r) == r # "not found"

\* Lines 196, 213, 232
Clicked(r) == r = "clicked"

\* Faulty variant: the auth check knows the marker of is_logged_in only.
AuthFailsOnSignInOnly(url) == Contains(LowerStr(url), "sign-in")

\* Line 178: the auth check fails the attempt.
AuthFails(url) == HasLoginMarker(url)

\* Faulty variant: the readiness loop breaks straight to the first click.
AfterPageReadySkipsAuth == "SELECTING_ITEM"

\* The phase entered when a phase completes.
AfterNavigating == "AWAITING_PAGE_READY"
AfterPageReady == "AUTH_CHECK"
AfterAuthCheck == "SELECTING_ITEM"
AfterSelectingItem == "OPENING_EXPORT_MENU"
AfterOpeningMenu == "SELECTING_FORMAT"
AfterSelectingFormat == "AWAITING_DOWNLOAD"

\* Faulty variant: every raise is preceded by close_safari_tab().
CleanupBeforeEveryRaise(phase, diag) == <<CloseTab>>

\* The bridge commands a raise statement of the given phase is preceded by:
\* only the one of line 247 follows close_safari_tab().
CleanupBeforeRaise(phase, diag) ==
    IF phase = "AWAITING_DOWNLOAD" /\ diag = NoExport THEN <<CloseTab>> ELSE <<>>

\* Line 242: the commands issued before the content is returned.
CleanupBeforeReturn == <<CloseTab>>

\* Line 236
Deadline(start, limit) == start + limit * TicksPerSecond

\* The attempt ends with an exception raised in `phase`.
Fail(phase, diag, issued) ==
    /\ pc' = "FAILED"
    /\ result' = Raised(diag, phase)
    /\ cmds' = cmds \o issued \o CleanupBeforeRaise(phase, diag)

ExportCall ==
    /\ op = "idle"
    /\ \E t \in Timeouts : timeout' = t
    /\ \E r \in ReportIds : report_id' = r
    /\ op' = "export"
    /\ pc' = "NAVIGATING"
    /\ entry_time' = clock
    /\ UNCHANGED <<clock, cmds, probe, poll, probes, ready, authUrl,
                   start_time, end_time, listing, picked, result,
                   response,
                   csv, expenses, js_result, scans, twin>>

\* Lines 158-161
Navigate ==
    /\ op = "export" /\ pc = "NAVIGATING"
    /\ \E f \in {"none", Activate, EnsureWindow, "set_url"} :
          LET issued == IF f = Activate THEN <<Activate>>
                        ELSE <<Activate>> \o SetSafariUrlCmds(SetUrlReports, f)
          IN  IF f = "none"
              THEN /\ pc' = AfterNavigating
                   /\ cmds' = cmds \o issued
                   /\ UNCHANGED result
              ELSE \E e \in Stderrs : Fail("NAVIGATING", BridgeError(e), issued)
    /\ UNCHANGED <<op, clock, timeout, report_id, probe, poll, probes,
                   ready, authUrl, entry_time, start_time, end_time, listing, picked, response,
                   csv, expenses, js_result, scans, twin>>

\* Lines 164-174: one iteration of the readiness loop, and the loop's else.
ReadyProbe ==
    /\ op = "export" /\ pc = "AWAITING_PAGE_READY"
    /\ probes < PollLimit
    /\ clock' = clock + PollSleep
    /\ probes' = probes + 1
    /\ \E r \in ReadyResults :
          /\ ready' = r
          /\ IF IsReady(r)
             THEN /\ pc' = AfterPageReady
                  /\ cmds' = Append(cmds, JsReady)
                  /\ UNCHANGED result
             ELSE IF probes + 1 = PollLimit
             THEN Fail("AWAITING_PAGE_READY", PageNotReady, <<JsReady>>)
             ELSE /\ cmds' = Append(cmds, JsReady)
                  /\ UNCHANGED <<pc, result>>
    /\ UNCHANGED <<op, timeout, report_id, probe, poll, authUrl,
                   entry_time, start_time, end_time, listing, picked,
                   response,
                   csv, expenses, js_result, scans, twin>>

\* Lines 177-182
AuthCheck ==
    /\ op = "export" /\ pc = "AUTH_CHECK"
    /\ \/ \E e \in Stderrs :
             /\ Fail("AUTH_CHECK", BridgeError(e), <<GetUrl>>)
             /\ UNCHANGED <<authUrl, start_time>>
       \/ \E u \in Urls :
             /\ authUrl' = u
             /\ IF AuthFails(u)
                THEN /\ Fail("AUTH_CHECK", NotLoggedIn, <<GetUrl>>)
                     /\ UNCHANGED start_time
                ELSE /\ pc' = AfterAuthCheck
                     /\ cmds' = Append(cmds, GetUrl)
                     /\ start_time' = clock
                     /\ UNCHANGED result
    /\ UNCHANGED <<op, clock, timeout, report_id, probe, poll, probes,
                   ready, entry_time, end_time, listing, picked, response,
                   csv, expenses, js_result, scans, twin>>

\* A click phase: run the script, check its result, sleep.
Click(phase, script, diag, next, sleep) ==
    /\ op = "export" /\ pc = phase
    /\ \E r \in ClickResults :
          IF r = "raise"
          THEN /\ \E e \in Stderrs : Fail(phase, BridgeError(e), <<script>>)
               /\ js_result' = r
               /\ UNCHANGED clock
          ELSE IF ~Clicked(r)
          THEN /\ Fail(phase, diag, <<script>>)
               /\ js_result' = r
               /\ UNCHANGED clock
          ELSE /\ pc' = next
               /\ cmds' = Append(cmds, script)
               /\ js_result' = r
               /\ clock' = clock + sleep
               /\ UNCHANGED result

\* Faulty variant: a given report_id selects that report's row.
js_click_checkbox_of(rid) ==
    IF rid = "none" THEN JsClickCheckbox ELSE "js_click_checkbox_of_report"

\* Lines 185-194: the script takes the first input.reportstable_checkbox of
\* the page, whatever report_id is.
js_click_checkbox(rid) == JsClickCheckbox

\* Lines 185-199
SelectItem ==
    /\ Click("SELECTING_ITEM", js_click_checkbox(report_id), NoCheckbox,
             AfterSelectingItem, ClickSleep)
    /\ UNCHANGED <<op, timeout, report_id, probe, poll, probes, ready,
                   authUrl, entry_time, start_time, end_time, listing, picked, response,
                   csv, expenses, scans, twin>>

\* Lines 202-216
OpenExportMenu ==
    /\ Click("OPENING_EXPORT_MENU", JsClickExport, NoExportButton,
             AfterOpeningMenu, ClickSleep)
    /\ UNCHANGED <<op, timeout, report_id, probe, poll, probes, ready,
                   authUrl, entry_time, start_time, end_time, listing, picked, response,
                   csv, expenses, scans, twin>>

\* Lines 219-236
SelectFormat ==
    /\ Click("SELECTING_FORMAT", JsClickCsv, NoCsvOption,
             AfterSelectingFormat, 0)
    /\ end_time' = IF pc' = AfterSelectingFormat
                   THEN Deadline(start_time, timeout) ELSE end_time
    /\ UNCHANGED <<op, timeout, report_id, probe, poll, probes, ready,
                   authUrl, entry_time, start_time, listing, picked,
                   response,
                   csv, expenses, scans, twin>>

\* Faulty variant: the loop is entered once more at the deadline itself.
DownloadLoopContinuesAtDeadline(now, end) == now <= end

\* Line 237: while time.time() < end_time
DownloadLoopContinues(now, end) == now < end

\* Lines 237-244: one iteration of the download loop, on what the directory
\* holds at that moment.
DownloadScan ==
    /\ op = "export" /\ pc = "AWAITING_DOWNLOAD"
    /\ DownloadLoopContinues(clock, end_time)
    /\ scans' = scans + 1
    /\ \E hit \in ScanOutcomesAt(clock, start_time) :
          IF hit.raised
          THEN /\ Fail("AWAITING_DOWNLOAD", FileGone, <<>>)
               /\ UNCHANGED <<clock, picked>>
          ELSE IF hit.found
          THEN /\ pc' = "DONE"
               /\ picked' = hit.file
               /\ result' = Returned([content |-> hit.file.content,
                                      stem |-> hit.file.name])
               /\ cmds' = cmds \o CleanupBeforeReturn
               /\ UNCHANGED clock
          ELSE /\ \E d \in Delays : clock' = clock + DownloadSleep + d
               /\ UNCHANGED <<pc, picked, result, cmds>>
    /\ UNCHANGED <<op, timeout, report_id, probe, poll, probes, ready,
                   authUrl, entry_time, start_time, end_time, listing,
                   response,
                   csv, expenses, js_result, twin>>

\* Lines 237, 246-247: the deadline has passed.
DownloadTimedOut ==
    /\ op = "export" /\ pc = "AWAITING_DOWNLOAD"
    /\ ~DownloadLoopContinues(clock, end_time)
    /\ Fail("AWAITING_DOWNLOAD", NoExport, <<>>)
    /\ UNCHANGED <<op, clock, timeout, report_id, probe, poll, probes,
                   ready, authUrl, entry_time, start_time, end_time, listing, picked, response,
                   csv, expenses, js_result, scans, twin>>

----------------------------------------------------------------------------
(* parser.py *)

\* A cell of a row as DictReader gives it: a string, or None for a column the
\* line has no field for.  A string is a sequence of characters or groups of
\* characters.
NoneValue == [some |-> FALSE, text |-> <<>>]
Str(t) == [some |-> TRUE, text |-> t]

\* Python truth of an optional string: neither None nor "".
Truthy(v) == v.some /\ v.text # <<>>

Min(S) == CHOOSE x \in S : \A y \in S : x <= y
Max(S) == CHOOSE x \in S : \A y \in S : x >= y

NoCsv == [header |-> <<>>, rows |-> <<>>]

\* Line 49, csv.DictReader: lines without any field are skipped.
DataLines(rows) == SelectSeq(rows, LAMBDA r : r # <<>>)

\* Line 140, csv.DictReader: the dict of one line.  Its keys are the header's
\* names in order; a line shorter than the header leaves None under the
\* missing names; the fields of a line longer than the header are put under
\* the key None, which comes last.
DictRow(header, line) ==
    [ keys   |-> header,
      values |-> [i \in 1..Len(header) |->
                     IF i <= Len(line) THEN Str(line[i]) ELSE NoneValue],
      rest   |-> Len(line) > Len(header) ]

\* Lines 52-75
field_mapping ==
    [ date         |-> <<"Timestamp", "Date", "Created", "Transaction Date",
                         "Expense Date">>,
      merchant     |-> <<"Merchant", "Vendor", "Payee", "Description">>,
      amount       |-> <<"Amount", "Total", "Expense Amount">>,
      currency     |-> <<"Currency", "Original Currency">>,
      category     |-> <<"Category", "Expense Category", "GL Code">>,
      tag          |-> <<"Tag", "Tags", "Project", "Cost Center">>,
      description  |-> <<"Comment", "Description", "Notes", "Memo">>,
      report_name  |-> <<"Report Name", "Report", "Report Title">>,
      reimbursable |-> <<"Reimbursable", "Is Reimbursable">>,
      billable     |-> <<"Billable", "Is Billable">>,
      receipt_url  |-> <<"Receipt URL", "Receipt", "Receipt Link">> ]

Found(v) == [raised |-> FALSE, value |-> v]
AttributeError == [raised |-> TRUE, value |-> NoneValue]

\* Lines 79-86, from the i-th name on.  A name that is a key returns what is
\* under it, whatever that is.  Otherwise the keys are lowered one after the
\* other up to the first that matches; lowering the key None raises.
RECURSIVE FindFrom(_, _, _)
FindFrom(row, field_names, i) ==
    IF i > Len(field_names) THEN Found(NoneValue)
    ELSE LET name == field_names[i]
             exact == {k \in 1..Len(row.keys) : row.keys[k] = name}
             anycase == {k \in 1..Len(row.keys) :
                            Lower(row.keys[k]) = Lower(name)}
         IN  IF exact # {} THEN Found(row.values[Min(exact)])
             ELSE IF anycase # {} THEN Found(row.values[Min(anycase)])
             ELSE IF row.rest THEN AttributeError
             ELSE FindFrom(row, field_names, i + 1)

\* Lines 77-86
find_field(row, field_names) == FindFrom(row, field_names, 1)

\* str.strip(): " " stands for any white space.
Strip(t) ==
    LET ix == {i \in 1..Len(t) : t[i] # " "}
    IN  IF ix = {} THEN <<>> ELSE SubSeq(t, Min(ix), Max(ix))

\* Lines 93-103
DateFormats ==
    << "%Y-%m-%d", "%m/%d/%Y", "%m/%d/%y", "%d/%m/%Y", "%d/%m/%y",
       "%Y-%m-%d %H:%M:%S", "%m/%d/%Y %H:%M:%S", "%B %d, %Y", "%b %d, %Y" >>

\* datetime.strptime(text, fmt) succeeds.
Strptime(text, fmt) ==
    <<text, fmt>> \in
        { << <<"2024-01-15">>, "%Y-%m-%d" >>,
          << <<"03/04/2024">>, "%m/%d/%Y" >>,
          << <<"03/04/2024">>, "%d/%m/%Y" >>,
          << <<"15/01/2024">>, "%d/%m/%Y" >> }

\* datetime.now()
Now == [now |-> TRUE, text |-> <<>>, format |-> ""]

\* Lines 88-111
parse_date(v) ==
    IF ~Truthy(v) THEN Now
    ELSE LET text == Strip(v.text)
             hits == {i \in 1..Len(DateFormats) : Strptime(text, DateFormats[i])}
         IN  IF hits = {} THEN Now
             ELSE [now |-> FALSE, text |-> text,
                   format |-> DateFormats[Min(hits)]]

\* Line 120: the characters removed ("$", the euro, pound and yen signs, ",").
CurrencyChars == {"$", "euro", "pound", "yen", ","}

\* Groups of digits: what they are worth and how many digits they have.
DigitValue(d) ==
    CASE d = "0" -> 0 [] d = "00" -> 0 [] d = "1" -> 1 [] d = "5" -> 5
      [] d = "12" -> 12 [] d = "50" -> 50 [] d = "200" -> 200

DigitWidth(d) ==
    CASE d \in {"0", "1", "5"} -> 1 [] d \in {"00", "12", "50"} -> 2
      [] d = "200" -> 3

Digits == {"0", "00", "1", "5", "12", "50", "200"}

AllDigits(t) == \A i \in 1..Len(t) : t[i] \in Digits

RECURSIVE Pow10(_)
Pow10(n) == IF n = 0 THEN 1 ELSE 10 * Pow10(n - 1)

RECURSIVE Width(_)
Width(t) == IF t = <<>> THEN 0 ELSE DigitWidth(t[1]) + Width(Tail(t))

\* The number written by the groups of digits one after the other.
RECURSIVE Number(_)
Number(t) ==
    IF t = <<>> THEN 0
    ELSE DigitValue(t[1]) * Pow10(Width(Tail(t))) + Number(Tail(t))

\* Decimal values.  A finite value is kept in hundredths.
Finite(c) == [kind |-> "finite", neg |-> FALSE, cents |-> c]
Special(k, neg) == [kind |-> k, neg |-> neg, cents |-> 0]
Zero == Finite(0)

Invalid == [valid |-> FALSE, value |-> Zero]
Valid(d) == [valid |-> TRUE, value |-> d]

\* Line 128, Decimal(text): an optional sign, then digits with an optional
\* fraction, or one of the special values in any case; anything else raises.
Decimal(t) ==
    LET signed == t # <<>> /\ t[1] \in {"-", "+"}
        neg == signed /\ t[1] = "-"
        body == IF signed THEN Tail(t) ELSE t
        dots == {i \in 1..Len(body) : body[i] = "."}
    IN  IF body = <<>> THEN Invalid
        ELSE IF AllDigits(body)
        THEN Valid(Finite((IF neg THEN -1 ELSE 1) * 100 * Number(body)))
        ELSE IF Cardinality(dots) = 1
        THEN LET k == Min(dots)
                 whole == SubSeq(body, 1, k - 1)
                 frac == SubSeq(body, k + 1, Len(body))
             IN  IF AllDigits(whole) /\ AllDigits(frac) /\ Len(body) > 1
                 THEN Valid(Finite((IF neg THEN -1 ELSE 1)
                        * (100 * Number(whole)
                           + (100 * Number(frac)) \div Pow10(Width(frac)))))
                 ELSE Invalid
        ELSE IF Len(body) = 1 /\ Lower(body[1]) \in {"nan", "snan"}
        THEN Valid(Special(Lower(body[1]), neg))
        ELSE IF Len(body) = 1 /\ Lower(body[1]) \in {"inf", "infinity"}
        THEN Valid(Special("inf", neg))
        ELSE Invalid

\* Lines 119-121
Cleaned(t) == SelectSeq(Strip(t), LAMBDA c : c \notin CurrencyChars)

\* Lines 124-125
Unparen(t) ==
    IF Len(t) > 1 /\ t[1] = "(" /\ t[Len(t)] = ")"
    THEN <<"-">> \o SubSeq(t, 2, Len(t) - 1)
    ELSE t

\* Lines 127-130: the value Decimal() gave, or zero if it raised.
ValueOrZero(d) == IF d.valid THEN d.value ELSE Zero

\* Lines 113-130
parse_amount(v) ==
    IF ~Truthy(v) THEN Zero
    ELSE ValueOrZero(Decimal(Unparen(Cleaned(v.text))))

\* Lines 132-136
parse_bool(v) ==
    Truthy(v) /\ LowerStr(v.text) \in {<<"yes">>, <<"true">>, <<"1">>, <<"y">>}

\* `value or default`
Or(v, default) == IF Truthy(v) THEN v.text ELSE default

\* Lines 141-153: one of the find_field calls raises.
RowRaises(row) ==
    \E f \in DOMAIN field_mapping : find_field(row, field_mapping[f]).raised

Get(row, f) == find_field(row, field_mapping[f]).value

\* Lines 141-153
Expense(row) ==
    [ date         |-> parse_date(Get(row, "date")),
      merchant     |-> Or(Get(row, "merchant"), <<"Unknown">>),
      amount       |-> parse_amount(Get(row, "amount")),
      currency     |-> Or(Get(row, "currency"), <<"USD">>),
      category     |-> Or(Get(row, "category"), <<>>),
      tag          |-> Get(row, "tag"),
      description  |-> Get(row, "description"),
      report_name  |-> Get(row, "report_name"),
      reimbursable |-> parse_bool(Get(row, "reimbursable")),
      billable     |-> parse_bool(Get(row, "billable")),
      receipt_url  |-> Get(row, "receipt_url") ]

NoneHasNoLower == <<"'NoneType' object has no attribute 'lower'">>

NotParsed == [ran |-> FALSE, raised |-> FALSE, diag |-> <<>>, list |-> <<>>]

\* Lines 43-156
parse_expensify_csv(csv_content) ==
    LET lines == DataLines(csv_content.rows)
        rows == [i \in 1..Len(lines) |-> DictRow(csv_content.header, lines[i])]
    IN  IF \E i \in 1..Len(rows) : RowRaises(rows[i])
        THEN [ran |-> TRUE, raised |-> TRUE, diag |-> NoneHasNoLower,
              list |-> <<>>]
        ELSE [ran |-> TRUE, raised |-> FALSE, diag |-> <<>>,
              list |-> [i \in 1..Len(rows) |-> Expense(rows[i])]]

----------------------------------------------------------------------------
(* CSV texts *)

\* Header lines: first aliases, later aliases, names in another case.
Headers ==
    { <<"Merchant", "Vendor", "Amount">>,
      <<"merchant", "Vendor", "Total">>,
      <<"Vendor", "Payee", "AMOUNT">>,
      <<"Date", "Merchant", "Amount">>,
      <<"Date", "Total">> }

AmountTexts ==
    { <<>>, <<"abc">>, <<"NaN">>, <<"sNaN">>, <<"Infinity">>,
      <<"-", "Infinity">>, <<"5">>, <<"-", "5">>,
      <<"(", "5", ".", "00", ")">>, <<"$", "1", ",", "200">>,
      <<" ", "12", ".", "50", " ">> }

OtherTexts == { <<>>, <<"Acme">>, <<"2024-01-15">> }

\* A line with a field for every column: `a` in the last, `o` in the others.
FullLine(header, o, a) ==
    [i \in 1..Len(header) |-> IF i = Len(header) THEN a ELSE o[i]]

PlainLine(header) ==
    FullLine(header, [i \in 1..Len(header) |-> <<"Acme">>], <<"5">>)

\* The data lines a text under the given header can have: any amount text,
\* any other fields, fewer fields than the header (down to the empty line),
\* one field more than the header.
Lines(header) ==
    {FullLine(header, [i \in 1..Len(header) |-> <<"Acme">>], a) :
        a \in AmountTexts}
    \cup {FullLine(header, o, <<"5">>) : o \in [1..Len(header) -> OtherTexts]}
    \cup {SubSeq(PlainLine(header), 1, k) : k \in 0..Len(header)}
    \cup {PlainLine(header) \o << <<"extra">> >>}

\* The content of a downloaded file with the given header line.
ExportedRows(header) ==
    { <<>>,
      <<PlainLine(header)>>,
      <<PlainLine(header), FullLine(header, PlainLine(header), <<"NaN">>)>>,
      <<FullLine(header, PlainLine(header), <<"sNaN">>)>>,
      <<PlainLine(header) \o << <<"extra">> >> >> }

----------------------------------------------------------------------------
(* server.py *)

\* Lines 16-41
format_error(diag) ==
    IF Contains(diag, "Bot detection")
       \/ Contains(diag, "Oops... an error has occurred")
    THEN [error |-> <<"Bot detection triggered">>,
          message |-> <<"Expensify may have detected automation.">>,
          details |-> diag]
    ELSE IF Contains(diag, "Not logged in")
    THEN [error |-> <<"Not logged in">>,
          message |-> <<"Please run expensify_login first to authenticate.">>]
    ELSE IF Contains(diag, "Timeout")
    THEN [error |-> <<"Timeout">>,
          message |-> <<"The operation timed out.">>,
          details |-> diag]
    ELSE [error |-> diag]

NoResponse == [status |-> "none"]

InvalidOperation == <<"[<class 'decimal.InvalidOperation'>]">>

\* Decimal addition under the default context: a signalling NaN and the sum
\* of opposite infinities raise InvalidOperation, a quiet NaN is carried on.
Plus(a, b) ==
    IF a.kind = "snan" \/ b.kind = "snan" THEN Invalid
    ELSE IF a.kind = "nan" THEN Valid(a)
    ELSE IF b.kind = "nan" THEN Valid(b)
    ELSE IF a.kind = "inf" /\ b.kind = "inf"
    THEN IF a.neg = b.neg THEN Valid(a) ELSE Invalid
    ELSE IF a.kind = "inf" THEN Valid(a)
    ELSE IF b.kind = "inf" THEN Valid(b)
    ELSE Valid(Finite(a.cents + b.cents))

\* Line 109: sum(e.amount for e in expenses), from the i-th expense on.
RECURSIVE SumFrom(_, _, _)
SumFrom(list, i, acc) ==
    IF i > Len(list) THEN Valid(acc)
    ELSE LET next == Plus(acc, list[i].amount)
         IN  IF next.valid THEN SumFrom(list, i + 1, next.value) ELSE Invalid

\* Lines 103-117: the result handed back for a parsed export.
ExportResult(report_name, list) ==
    [ report_name |-> report_name,
      expenses    |-> list,
      summary     |->
        [ total_expenses |-> Len(list),
          total_amount   |-> SumFrom(list, 1, Zero).value,
          currencies     |-> {list[i].currency : i \in 1..Len(list)},
          categories     |-> {list[i].category : i \in 1..Len(list)}
                             \ {<<>>} ] ]

\* Lines 102-123: the file's content is parsed and summed up; whatever is
\* raised on the way is formatted as an error.
ExportResponse(report_name, parsed) ==
    IF parsed.raised THEN format_error(parsed.diag)
    ELSE IF ~SumFrom(parsed.list, 1, Zero).valid
    THEN format_error(InvalidOperation)
    ELSE ExportResult(report_name, parsed.list)

\* parse_expensify_csv(csv_content) for every content a downloaded file can
\* have, worked out once.
ParseTable ==
    [h \in {k.content : k \in FileKinds} |->
        [rows \in ExportedRows(h) |->
            parse_expensify_csv([header |-> h, rows |-> rows])]]

\* Lines 80-97
LoginReturn ==
    /\ op = "login" /\ pc \in {"done", "raised"}
    /\ op' = "returned"
    /\ response' =
          IF result.kind = "raised" THEN format_error(result.diag)
          ELSE IF result.value
          THEN [status |-> "success",
                message |-> <<"Successfully logged in to Expensify">>]
          ELSE [status |-> "timeout",
                message |-> <<"Login timed out. Please try again.">>]
    /\ UNCHANGED <<pc, clock, timeout, report_id, cmds, probe, poll,
                   probes, ready, authUrl, entry_time, start_time, end_time,
                   listing, picked, result,
                   csv, expenses, js_result, scans, twin>>

\* Lines 99-123
ExportReturn ==
    /\ op = "export" /\ pc \in {"DONE", "FAILED"}
    /\ op' = "returned"
    /\ IF result.kind = "raised"
       THEN /\ response' = format_error(result.diag)
            /\ UNCHANGED <<csv, expenses>>
       ELSE \E rows \in ExportedRows(result.value.content) :
               LET text == [header |-> result.value.content, rows |-> rows]
                   parsed == ParseTable[text.header][text.rows]
               IN  /\ csv' = text
                   /\ expenses' = parsed
                   /\ response' = ExportResponse(result.value.stem, parsed)
    /\ UNCHANGED <<pc, clock, timeout, report_id, cmds, probe, poll,
                   probes, ready, authUrl, entry_time, start_time, end_time,
                   listing, picked, result, js_result, scans, twin>>

----------------------------------------------------------------------------
(* The server: one tool call against a browser and a download directory *)

Init ==
    /\ op = "idle"
    /\ pc = "idle"
    /\ clock = 0
    /\ timeout = 0
    /\ report_id = "none"
    /\ cmds = <<>>
    /\ probe = NoProbe
    /\ poll = NoPoll
    /\ probes = 0
    /\ ready = NoReady
    /\ authUrl = <<>>
    /\ entry_time = 0
    /\ start_time = 0
    /\ end_time = 0
    /\ listing = <<>>
    /\ picked = NoFile
    /\ result = NoResult
    /\ response = NoResponse
    /\ csv = NoCsv
    /\ expenses = NotParsed
    /\ js_result = "none"
    /\ scans = 0
    /\ twin = NoTwin

Next ==
    \/ LoginCall
    \/ LoginActivate
    \/ LoginFirstProbe
    \/ LoginNavigate
    \/ LoginPoll
    \/ LoginTimedOut
    \/ LoginReturn
    \/ ExportCall
    \/ Navigate
    \/ ReadyProbe
    \/ AuthCheck
    \/ SelectItem
    \/ OpenExportMenu
    \/ SelectFormat
    \/ DownloadScan
    \/ DownloadTimedOut
    \/ ExportReturn

Spec == Init /\ [][Next]_vars

\* The steps of a running call.  The flow of control is sequential and
\* blocking: a call that can take its next step takes it.
LoginStep ==
    \/ LoginActivate
    \/ LoginFirstProbe
    \/ LoginNavigate
    \/ LoginPoll
    \/ LoginTimedOut

ExportStep ==
    \/ Navigate
    \/ ReadyProbe
    \/ AuthCheck
    \/ SelectItem
    \/ OpenExportMenu
    \/ SelectFormat
    \/ DownloadScan
    \/ DownloadTimedOut

\* Bridge calls return and sleeps end: the running call goes on.
SpecLive ==
    Init /\ [][Next]_vars /\ WF_vars(LoginStep) /\ WF_vars(ExportStep)

----------------------------------------------------------------------------
(* One iteration of the download loop on a given directory *)

TwoMinutes == 240
ThreeSeconds == 6
LongWait == 250

\* Modification times of the listed files: at the anchor (time 0), just after
\* it, two minutes ago, three seconds ago, now.
ScanMtimes(now) ==
    {t \in {0, 1, now - TwoMinutes, now - ThreeSeconds, now} : t <= now}

\* A crowd of other applications' .csv files, all written at the same time.
Crowd(n, mtime) ==
    [i \in 1..n |->
        [mtime |-> mtime, name |-> <<"notes">>, content |-> <<"Date", "Total">>,
         readable |-> TRUE, gone |-> FALSE]]

CrowdSizes == {0, ScanLimit - 1, ScanLimit, ScanLimit + 1}

\* The listings scanned: up to MaxFiles files of any kind and time.
FewFiles(now) ==
    LET files == {File(k, t) : k \in FileKinds, t \in ScanMtimes(now)}
    IN  UNION { [1..n -> files] : n \in 0..MaxFiles }

InitScan ==
    /\ op = "scan"
    /\ pc = "listed"
    /\ clock \in {ThreeSeconds, LongWait}
    /\ \E few \in FewFiles(clock), n \in CrowdSizes, t \in {1, clock},
          crowdFirst \in BOOLEAN :
          \* the crowd is listed before or after the other files
          listing = IF crowdFirst THEN Crowd(n, t) \o few
                    ELSE few \o Crowd(n, t)
    /\ start_time = 0
    /\ timeout = 0
    /\ report_id = "none"
    /\ cmds = <<>>
    /\ probe = NoProbe
    /\ poll = NoPoll
    /\ probes = 0
    /\ ready = NoReady
    /\ authUrl = <<>>
    /\ entry_time = 0
    /\ end_time = 0
    /\ picked = NoFile
    /\ result = NoResult
    /\ response = NoResponse
    /\ csv = NoCsv
    /\ expenses = NotParsed
    /\ js_result = "none"
    /\ scans = 0
    /\ twin = NoTwin

\* Lines 238-243: the iteration's scan and what it hands on.
ScanOnce ==
    /\ op = "scan" /\ pc = "listed"
    /\ pc' = "scanned"
    /\ LET hit == AwaitScan(listing, clock, start_time) IN
          /\ picked' = hit.file
          /\ result' = IF hit.raised THEN Raised(FileGone, "AWAITING_DOWNLOAD")
                       ELSE IF hit.found
                       THEN Returned([content |-> hit.file.content,
                                      stem |-> hit.file.name])
                       ELSE NoResult
    /\ UNCHANGED <<op, clock, timeout, report_id, cmds, probe, poll, probes,
                   ready, authUrl, entry_time, start_time, end_time, listing,
                   response,
                   csv, expenses, js_result, scans, twin>>

NextScan == ScanOnce

SpecScan == InitScan /\ [][NextScan]_vars

----------------------------------------------------------------------------
(* parse_expensify_csv on a given text *)

MaxRows == 2

\* The exported texts of up to `most` data lines.
CsvTexts(most) ==
    UNION { { [header |-> h, rows |-> r] : r \in [1..n -> Lines(h)] } :
            h \in Headers, n \in 0..most }

InitParse ==
    /\ op = "parse"
    /\ pc = "read"
    /\ csv \in CsvTexts(MaxRows)
    /\ expenses = NotParsed
    /\ js_result = "none"
    /\ scans = 0
    /\ twin = NoTwin
    /\ clock = 0
    /\ timeout = 0
    /\ report_id = "none"
    /\ cmds = <<>>
    /\ probe = NoProbe
    /\ poll = NoPoll
    /\ probes = 0
    /\ ready = NoReady
    /\ authUrl = <<>>
    /\ entry_time = 0
    /\ start_time = 0
    /\ end_time = 0
    /\ listing = <<>>
    /\ picked = NoFile
    /\ result = NoResult
    /\ response = NoResponse

\* Lines 43-156
ParseCsv ==
    /\ op = "parse" /\ pc = "read"
    /\ pc' = "parsed"
    /\ expenses' = parse_expensify_csv(csv)
    /\ UNCHANGED <<op, clock, timeout, report_id, cmds, probe, poll, probes,
                   ready, authUrl, entry_time, start_time, end_time, listing,
                   picked, result, response, csv, js_result, scans, twin>>

NextParse == ParseCsv

SpecParse == InitParse /\ [][NextParse]_vars

----------------------------------------------------------------------------
(* Two export attempts that differ in report_id only *)

\* The steps of an export call, from the call to the response.
ExportMove == ExportCall \/ ExportStep \/ ExportReturn

\* A comparison starts from the state the first attempt is in.
Mark ==
    /\ twin.stage = "sync"
    /\ op \in {"idle", "export"}
    /\ twin' = [stage |-> "armed", rid |-> report_id,
                before |-> Obs, after |-> Obs]
    /\ UNCHANGED <<op, pc, clock, timeout, report_id, cmds, probe, poll,
                   probes, ready, authUrl, entry_time, start_time, end_time,
                   listing, picked, result, response, csv, expenses,
                   js_result, scans>>

\* The first attempt takes a step.
FirstMoves ==
    /\ twin.stage = "armed" /\ Obs = twin.before
    /\ ExportMove

\* The second attempt is put where the first one was before its step, with a
\* report_id of its own; what the first one's step led to is kept.
Rewind ==
    /\ twin.stage = "armed" /\ Obs # twin.before
    /\ twin' = [twin EXCEPT !.stage = "replay", !.rid = report_id,
                            !.after = Obs]
    /\ \E r \in ReportIds : report_id' = r
    /\ op' = twin.before.op
    /\ pc' = twin.before.pc
    /\ clock' = twin.before.clock
    /\ timeout' = twin.before.timeout
    /\ cmds' = twin.before.cmds
    /\ probe' = twin.before.probe
    /\ poll' = twin.before.poll
    /\ probes' = twin.before.probes
    /\ ready' = twin.before.ready
    /\ authUrl' = twin.before.authUrl
    /\ entry_time' = twin.before.entry_time
    /\ start_time' = twin.before.start_time
    /\ end_time' = twin.before.end_time
    /\ listing' = twin.before.listing
    /\ picked' = twin.before.picked
    /\ result' = twin.before.result
    /\ response' = twin.before.response
    /\ csv' = twin.before.csv
    /\ expenses' = twin.before.expenses
    /\ js_result' = twin.before.js_result
    /\ scans' = twin.before.scans

\* The second attempt meets the same browser, page and directory: it takes
\* the step that leads where the first one's step led.
SecondMoves ==
    /\ twin.stage = "replay" /\ Obs = twin.before
    /\ ExportMove
    /\ Obs' = twin.after

\* Both attempts have taken the step; the comparison goes on from there.
Resync ==
    /\ twin.stage = "replay" /\ Obs = twin.after /\ Obs # twin.before
    /\ twin' = NoTwin
    /\ UNCHANGED <<op, pc, clock, timeout, report_id, cmds, probe, poll,
                   probes, ready, authUrl, entry_time, start_time, end_time,
                   listing, picked, result, response, csv, expenses,
                   js_result, scans>>

NextTwin ==
    \/ Mark
    \/ FirstMoves
    \/ Rewind
    \/ SecondMoves
    \/ Resync

SpecTwin == Init /\ [][NextTwin]_vars

----------------------------------------------------------------------------
(* Properties *)

InExport == pc \in {"NAVIGATING", "AWAITING_PAGE_READY", "AUTH_CHECK",
                    "SELECTING_ITEM", "OPENING_EXPORT_MENU",
                    "SELECTING_FORMAT", "AWAITING_DOWNLOAD", "DONE", "FAILED"}

InLogin == pc \in {"activate", "first_probe", "navigate", "poll", "done",
                   "raised"}

PhaseOrder ==
    <<"NAVIGATING", "AWAITING_PAGE_READY", "AUTH_CHECK", "SELECTING_ITEM",
      "OPENING_EXPORT_MENU", "SELECTING_FORMAT", "AWAITING_DOWNLOAD", "DONE">>

PhaseIndex(p) == CHOOSE i \in 1..Len(PhaseOrder) : PhaseOrder[i] = p

\* The login markers as the specification names them.
Marked(url) == \E i \in 1..Len(url) : Lower(url[i]) \in {"sign-in", "signin"}

Issued(c) == \E i \in 1..Len(cmds) : cmds[i] = c

ClickScripts == {JsClickCheckbox, JsClickExport, JsClickCsv}

\* The tabulated outcomes are those of the scan at the attempt's own times.
ScanTableAgrees ==
    (pc = "AWAITING_DOWNLOAD" /\ clock < end_time) =>
        ScanOutcomesAt(clock, start_time) = ScanOutcomes(clock, start_time)

\* C1: an export attempt starts in NAVIGATING, and every change of phase
\* goes from a phase to its successor in the forward order or to FAILED;
\* DONE and FAILED are left by no step.
C1_ForwardPhases ==
    [][ /\ (op = "idle" /\ op' = "export") => pc' = "NAVIGATING"
        /\ (InExport /\ pc' # pc) =>
              /\ pc \notin {"DONE", "FAILED"}
              /\ \/ pc' = "FAILED"
                 \/ /\ pc' \in {PhaseOrder[i] : i \in 1..Len(PhaseOrder)}
                    /\ PhaseIndex(pc') = PhaseIndex(pc) + 1 ]_vars

\* An attempt that went through every phase and was handed back.
C1_Witness == op = "returned" /\ pc = "DONE"

\* C2 (as claimed): an attempt that is DONE, or FAILED because the export
\* button or the CSV option was not clicked or the download deadline passed,
\* has issued the tab-close command.
C2_TabClosedOnLateOutcome ==
    ( \/ pc = "DONE"
      \/ /\ pc = "FAILED"
         /\ result.diag \in {NoExportButton, NoCsvOption, NoExport} )
    => Issued(CloseTab)

\* C3: an attempt that failed in AWAITING_PAGE_READY, AUTH_CHECK or
\* SELECTING_ITEM has issued no tab-close command; after 20 readiness probes
\* none of which was ready the attempt is FAILED with the page-not-ready
\* diagnostic and the tab was not closed.
C3_NoCleanupOnEarlyFailure ==
    /\ ( /\ pc = "FAILED"
         /\ result.at \in {"AWAITING_PAGE_READY", "AUTH_CHECK",
                           "SELECTING_ITEM"} )
       => ~Issued(CloseTab)
    /\ (probes = 20 /\ ~(ready.kind = "num" /\ ready.whole > 10))
       => /\ pc = "FAILED"
          /\ result.at = "AWAITING_PAGE_READY"
          /\ result.diag = PageNotReady
          /\ ~Issued(CloseTab)

\* Scenario D: twenty probes, none ready, the failure handed back.
C3_Witness ==
    /\ op = "returned" /\ pc = "FAILED"
    /\ result.at = "AWAITING_PAGE_READY"
    /\ probes = 20

\* C4: when the URL read at the auth check carries a login marker, the
\* attempt is FAILED with the not-authenticated diagnostic, the URL read is
\* the last bridge command it issued (no click script, no navigation to the
\* login URL), and the response handed back is the "Not logged in" error.
C4_AuthCheckFailsOnLoginMarker ==
    Marked(authUrl) =>
        /\ pc = "FAILED"
        /\ result.at = "AUTH_CHECK"
        /\ result.diag = NotLoggedIn
        /\ cmds[Len(cmds)] = GetUrl
        /\ \A c \in ClickScripts \cup {SetUrlSignin} : ~Issued(c)
        /\ op = "returned" => response.error = <<"Not logged in">>

\* The auth check read a URL with an upper-case marker.
C4_Witness ==
    /\ op = "returned"
    /\ Contains(authUrl, "SIGNIN")
    /\ response.error = <<"Not logged in">>

\* C5 (as claimed): the deadline of the download wait is the time the attempt
\* was entered plus the timeout, and no iteration of the download loop begins
\* later than that.
C5_DeadlineFromAttemptStart ==
    pc = "AWAITING_DOWNLOAD" =>
        /\ end_time = entry_time + timeout * TicksPerSecond
        /\ clock < end_time => clock <= entry_time + timeout * TicksPerSecond

\* C6: the content an attempt returns is that of a file that, at the scan
\* that took it, was modified strictly after the anchor, was no older than
\* the freshness window, could be read and matched the export heuristic.
C6_AcceptedFileIsNew ==
    pc = "DONE" =>
        /\ picked.mtime > start_time
        /\ clock - picked.mtime
              <= 2 * (((clock - start_time) \div 2) + 5)
        /\ \/ \E i \in 1..Len(picked.content) :
                 picked.content[i] \in {"Merchant", "Amount"}
           \/ \E i \in 1..Len(picked.name) : picked.name[i] = "Expensify"
        /\ result.kind = "value"
        /\ result.value.content = picked.content
        /\ result.value.stem = picked.name

\* A file written just after the anchor and matching by its name only.
C6_Witness ==
    /\ pc = "DONE"
    /\ picked.mtime = start_time + 1
    /\ picked.name = <<"Expensify", "Report">>

\* A listed file qualifies: modified after the anchor, within the freshness
\* window, readable, and matching the export heuristic.
Qualifies(f) ==
    /\ f.mtime > start_time
    /\ clock - f.mtime <= 2 * (((clock - start_time) \div 2) + 5)
    /\ f.readable
    /\ \/ \E i \in 1..Len(f.content) : f.content[i] \in {"Merchant", "Amount"}
       \/ \E i \in 1..Len(f.name) : f.name[i] = "Expensify"

Listed == {listing[i] : i \in 1..Len(listing)}

NewerThan(f) == {i \in 1..Len(listing) : listing[i].mtime > f.mtime}

NotOlderThan(f) == {i \in 1..Len(listing) : listing[i].mtime >= f.mtime}

\* C7: a scan that returns a file returns a listed file that qualifies, that
\* fewer than ten listed files are newer than, and than which no qualifying
\* listed file is newer; a scan returns a file whenever a qualifying file is
\* surely among the ten newest.
C7_NewestQualifyingAmongTen ==
    (pc = "scanned" /\ result.kind # "raised") =>
        /\ result.kind = "value" =>
              /\ picked \in Listed
              /\ Qualifies(picked)
              /\ Cardinality(NewerThan(picked)) < 10
              /\ \A g \in Listed : Qualifies(g) => g.mtime <= picked.mtime
        /\ result.kind = "none" =>
              \A g \in Listed :
                  Qualifies(g) => Cardinality(NotOlderThan(g)) > 10

\* Scenario B: a 2-minute-old and a 3-second-old export, the newer one taken.
C7_Witness ==
    /\ pc = "scanned"
    /\ Len(listing) = 2
    /\ listing[1].mtime = clock - 240 /\ Qualifies(listing[1])
    /\ listing[2].mtime = clock - 6 /\ Qualifies(listing[2])
    /\ picked = listing[2]


\* C8 (as claimed): a run of the session probe returns true exactly when no
\* bridge call failed and the URL read contains '/reports' and none of the
\* login markers 'sign-in' and 'signin'.
C8_ProbeTrueIffReportsAndNoMarker ==
    probe.ran =>
        ( probe.result <=>
            /\ ~probe.failed
            /\ Contains(probe.url, "/reports")
            /\ ~Marked(probe.url) )

\* C9: login has returned true only if the last session probe returned true,
\* and an iteration of the poll loop ran the probe only if the URL it read
\* carries no login marker.
C9_TrueOnlyOnConfirmedProbe ==
    /\ (InLogin /\ result.kind = "value" /\ result.value = TRUE)
       => (probe.ran /\ probe.result)
    /\ poll.probed => (~poll.raised /\ ~Marked(poll.url))

\* Login returned true from an iteration of the poll loop.
C9_Witness ==
    /\ op = "returned" /\ InLogin
    /\ result.kind = "value" /\ result.value = TRUE
    /\ poll.probed

\* C10: when the probe run before the poll loop returned true, login has
\* returned true having issued nothing after the probe's own commands: no
\* navigation to the login URL, no further URL read, no poll iteration.
C10_ShortCircuitOnFirstProbe ==
    (InLogin /\ probe.ran /\ probe.result /\ poll = NoPoll) =>
        /\ pc = "done"
        /\ result = Returned(TRUE)
        /\ cmds = <<Activate, Activate, EnsureWindow, SetUrlReports, GetUrl>>
        /\ ~Issued(SetUrlSignin)

\* Login returned true on the probe run before the poll loop.
C10_Witness ==
    /\ op = "returned" /\ InLogin
    /\ probe.ran /\ probe.result /\ poll = NoPoll

\* C11 (as claimed): a login call ends with true or false, never with an
\* error raised to its caller.
C11_LoginEndsTrueOrFalse ==
    (InLogin /\ pc \notin {"activate", "first_probe", "navigate", "poll"})
        => (pc = "done" /\ result.kind = "value")

\* C11 (amended): every login call ends; one that has entered the poll loop
\* ends with true or false, and an error is raised only by the activation or
\* the navigation before the loop.  In the loop the start time and the
\* timeout are not changed, an iteration begins only before the deadline
\* start + timeout, false is returned only at or after it, and an iteration
\* whose URL read or whose probe failed in the bridge leaves the loop running
\* with nothing raised.
C11_PollLoopTerminates ==
    /\ [][ (op = "login" /\ pc = "poll") =>
              /\ start_time' = start_time
              /\ timeout' = timeout
              /\ cmds' # cmds => clock < start_time + 2 * timeout
              /\ pc' # "poll" =>
                    /\ pc' = "done"
                    /\ result'.kind = "value"
                    /\ result'.value = FALSE =>
                          /\ clock >= start_time + 2 * timeout
                          /\ cmds' = cmds
              /\ ( /\ cmds' # cmds
                   /\ \/ poll'.raised
                      \/ poll'.probed /\ probe'.failed )
                 => (pc' = "poll" /\ result' = result) ]_vars
    /\ [](pc = "raised" => result.at \in {"activate", "navigate"})
    /\ (op = "login" /\ pc = "poll") ~> (pc = "done" /\ result.kind = "value")
    /\ InLogin ~> (pc \in {"done", "raised"})

\* Login returned false after an iteration whose URL read failed.
C11_Witness ==
    /\ op = "returned" /\ InLogin
    /\ result.kind = "value" /\ result.value = FALSE
    /\ poll.raised

Parsed == op = "parse" /\ pc = "parsed"

\* The data rows of the text parsed: its lines that are not empty.
DataRows == DataLines(csv.rows)

\* C12 (as claimed): parsing a text with a header line raises nothing and
\* gives as many records as the text has data rows, the i-th record being the
\* one made of the i-th data row.
C12_OneRecordPerRow ==
    Parsed =>
        /\ ~expenses.raised
        /\ Len(expenses.list) = Len(DataRows)
        /\ \A i \in 1..Len(DataRows) :
              expenses.list[i] = Expense(DictRow(csv.header, DataRows[i]))

\* The column an alias names: the one of that very name, else the first whose
\* name is the alias in another case; 0 if there is none.
ColumnOf(name) ==
    LET exact == {c \in 1..Len(csv.header) : csv.header[c] = name}
        anycase == {c \in 1..Len(csv.header) :
                       Lower(csv.header[c]) = Lower(name)}
    IN  IF exact # {} THEN Min(exact)
        ELSE IF anycase # {} THEN Min(anycase)
        ELSE 0

\* The alias has a present value in the line.
HasValue(line, name) ==
    /\ ColumnOf(name) # 0
    /\ ColumnOf(name) <= Len(line)
    /\ line[ColumnOf(name)] # <<>>

\* The value of the first alias that has one, or the default.
FirstPresent(line, names, default) ==
    LET hits == {k \in 1..Len(names) : HasValue(line, names[k])}
    IN  IF hits = {} THEN default ELSE line[ColumnOf(names[Min(hits)])]

\* C13 (as claimed): the merchant, the currency and the category of every
\* record are the value of the first alias, in the order of the alias table,
\* that has a present value in the row (the default if none has).
C13_FirstPresentAliasWins ==
    (Parsed /\ ~expenses.raised) =>
        \A i \in 1..Len(DataRows) :
            LET e == expenses.list[i]
                line == DataRows[i]
            IN  /\ e.merchant =
                     FirstPresent(line, field_mapping.merchant, <<"Unknown">>)
                /\ e.currency =
                     FirstPresent(line, field_mapping.currency, <<"USD">>)
                /\ e.category =
                     FirstPresent(line, field_mapping.category, <<>>)

\* The text is a number once it is cleaned: an optional sign, digits, and an
\* optional fraction.
WritesNumber(text) ==
    LET t == Unparen(Cleaned(text))
        body == IF t # <<>> /\ t[1] \in {"-", "+"} THEN Tail(t) ELSE t
    IN  /\ body # <<>>
        /\ \A i \in 1..Len(body) : body[i] \in Digits \cup {"."}
        /\ Cardinality({i \in 1..Len(body) : body[i] = "."}) <= 1
        /\ \E i \in 1..Len(body) : body[i] \in Digits

\* C14 (as claimed): the amount of every record is a finite decimal, and is
\* zero when the amount cell is absent or its cleaned text is not a number.
C14_AmountFinite ==
    (Parsed /\ ~expenses.raised) =>
        \A i \in 1..Len(DataRows) :
            LET cell == Get(DictRow(csv.header, DataRows[i]), "amount")
                amount == expenses.list[i].amount
            IN  /\ amount.kind = "finite"
                /\ (~cell.some \/ ~WritesNumber(cell.text)) => amount = Zero

\* C15 (as claimed): the response to a login or export call that failed is
\* an error object that carries a category, a remediation hint and the
\* original diagnostic.
C15_ErrorsAreStructured ==
    (op = "returned" /\ (result.kind = "raised" \/ expenses.raised)) =>
        /\ {"error", "message", "details"} \subseteq DOMAIN response
        /\ response.details = (IF expenses.raised THEN expenses.diag
                                ELSE result.diag)

\* C16 (as claimed): the download wait fails only by its deadline: an
\* attempt that failed in AWAITING_DOWNLOAD failed at or after the deadline
\* with the no-export diagnostic, whatever files the scans came across.
C16_UnusableFilesAreSkipped ==
    (pc = "FAILED" /\ result.at = "AWAITING_DOWNLOAD") =>
        /\ result.diag = NoExport
        /\ clock >= end_time

\* The readiness script was run n times.
ReadyRuns(log) == Cardinality({i \in 1..Len(log) : log[i] = JsReady})

Counted(r) == r.kind = "num" /\ r.whole > 10

\* C17: the readiness script is run once per probe and at most 20 times; the
\* attempt leaves AWAITING_PAGE_READY for AUTH_CHECK exactly at a probe whose
\* result parsed to a count above 10, and for FAILED, with the page-not-ready
\* diagnostic, exactly at a 20th probe without such a count; a probe that
\* failed in the bridge or gave no number leaves the attempt as it was but
\* for the probe counted.
C17_ReadinessProbes ==
    /\ [](InExport => (probes <= 20 /\ ReadyRuns(cmds) = probes))
    /\ [][ (op = "export" /\ pc = "AWAITING_PAGE_READY") =>
              /\ probes' = probes + 1
              /\ cmds' = Append(cmds, JsReady)
              /\ pc' = "AUTH_CHECK" <=> Counted(ready')
              /\ pc' = "FAILED" <=> (probes' = 20 /\ ~Counted(ready'))
              /\ pc' = "FAILED" => result' = Raised(PageNotReady, pc)
              /\ pc' \in {pc, "AUTH_CHECK", "FAILED"}
              /\ ready'.kind \in {"raise", "text"} =>
                    (pc' # "AUTH_CHECK" /\ (probes' < 20 => (pc' = pc /\ result' = result)))
          ]_vars

\* The page was counted as loaded at the 20th probe.
C17_Witness == pc = "AUTH_CHECK" /\ probes = 20

ClickPhases == {"SELECTING_ITEM", "OPENING_EXPORT_MENU", "SELECTING_FORMAT"}

ScriptOf(phase) ==
    CASE phase = "SELECTING_ITEM"      -> JsClickCheckbox
      [] phase = "OPENING_EXPORT_MENU" -> JsClickExport
      [] phase = "SELECTING_FORMAT"    -> JsClickCsv

NotFoundOf(phase) ==
    CASE phase = "SELECTING_ITEM"      -> NoCheckbox
      [] phase = "OPENING_EXPORT_MENU" -> NoExportButton
      [] phase = "SELECTING_FORMAT"    -> NoCsvOption

CountOf(c) == Cardinality({i \in 1..Len(cmds) : cmds[i] = c})

\* C18: no click script is run twice in an attempt; a click phase runs its
\* script and is left for the next phase only with the result 'clicked',
\* and for FAILED otherwise, with the phase's not-found diagnostic when the
\* script returned another result; an attempt that failed in a click phase
\* ran that phase's script last and never scanned the download directory.
C18_ClickOnceOrFail ==
    /\ [](InExport => \A c \in ClickScripts : CountOf(c) <= 1)
    /\ []( (pc = "FAILED" /\ result.at \in ClickPhases) =>
              /\ cmds[Len(cmds)] = ScriptOf(result.at)
              /\ scans = 0 )
    /\ [][ (op = "export" /\ pc \in ClickPhases) =>
              /\ cmds' = Append(cmds, ScriptOf(pc))
              /\ pc' \in {"FAILED", PhaseOrder[PhaseIndex(pc) + 1]}
              /\ pc' # "FAILED" => js_result' = "clicked"
              /\ js_result' # "clicked" => pc' = "FAILED"
              /\ js_result' \notin {"clicked", "raise"} =>
                    result' = Raised(NotFoundOf(pc), pc) ]_vars

\* The export menu's script returned an empty result after the item's
\* script had clicked.
C18_Witness ==
    /\ pc = "FAILED"
    /\ result.at = "OPENING_EXPORT_MENU"
    /\ js_result = ""
    /\ CountOf(JsClickCheckbox) = 1

\* C19: with bridge calls returning and the clock advancing, every export
\* attempt reaches DONE or FAILED.  The readiness loop runs at most 20 times;
\* a click phase is left by the step that runs it; the deadline of the
\* download wait is fixed while the wait lasts, the directory is scanned only
\* while the clock is before the deadline, and the first check of the loop
\* condition made at or after the deadline fails the attempt without a scan,
\* whether or not a file has appeared.
C19_ExportTerminates ==
    /\ (op = "export") ~> (pc \in {"DONE", "FAILED"})
    /\ [](InExport => probes <= PollLimit)
    /\ [][ (op = "export" /\ pc \in ClickPhases) => pc' # pc ]_vars
    /\ [][ (op = "export" /\ pc = "AWAITING_DOWNLOAD") =>
              /\ end_time' = end_time
              /\ scans' # scans => clock < end_time
              /\ clock >= end_time =>
                    /\ pc' = "FAILED"
                    /\ result' = Raised(NoExport, "AWAITING_DOWNLOAD")
                    /\ scans' = scans
              /\ pc' = pc => clock' > clock ]_vars

\* The wait ran out after several scans of a directory that never held a
\* qualifying file.
C19_Witness ==
    /\ op = "export" /\ pc = "FAILED"
    /\ result = Raised(NoExport, "AWAITING_DOWNLOAD")
    /\ scans >= 2
    /\ picked = NoFile
    /\ clock >= end_time

====
